---- MODULE Spec2Model ----
(***************************************************************************)
(* Model of the read scoring, filtering and selection code of              *)
(* Fast5-to-Fastq: fastq_to_fastq.py and fast5_to_fastq.py, and of the     *)
(* file loop of fast5_integrity_check.py.                                  *)
(*                                                                         *)
(* Conventions                                                             *)
(*  - a byte string / str is a sequence of character codes;                *)
(*  - a Python float is an exact rational <<numerator, denominator>> in    *)
(*    lowest terms with a positive denominator (IEEE-754 rounding is not   *)
(*    represented);                                                        *)
(*  - a call that may raise yields [raised |-> <exception>, value |-> v],  *)
(*    raised = "none" for a normal return;                                 *)
(*  - Python None is <<>>, an optional integer n is <<n>>;                 *)
(*  - the value of an HDF5 FASTQ dataset is the list of its lines, i.e.    *)
(*    the result of value.split('\n') ('' is the one-line list <<"">>).    *)
(***************************************************************************)
EXTENDS Integers, Sequences, FiniteSets, TLC

VARIABLES
    pc,             \* position of the running program / call
    quals,          \* Scan: quality string under test
    window_size,    \* Scan: window size under test
    mean_out,       \* Scan: outcome of get_mean_qscore(quals)
    window_out,     \* Scan: outcome of get_min_window_qscore(quals, window_size)
    tool,           \* Filter, Select: "fastq" (fastq_to_fastq) or "fast5" (fast5_to_fastq)
    item,           \* Filter: the read (fastq) or the file (fast5) under test
    args,           \* Filter, Select: parsed command-line arguments
    filter_out,     \* Filter: outcome of check_filters
    hdf5_file,      \* Resolve: the file under test
    best_out,       \* Resolve: outcome of get_best_fastq_hdf5_location
    input_reads,    \* Select: input_reads / fast5_files as found
    idx,            \* Select: number of inputs the filter loop has handled
    passed_reads,   \* Select: filtered_reads / fast5_files after the filter loop
    passed_bases,   \* Select: total_bases after the filter loop
    filtered_reads, \* Select: filtered_reads / fast5_files (list being emitted)
    total_bases,    \* Select: total_bases (reported)
    good_read_names,            \* Select: good_read_names / good_fast5_files
    min_window_qual_threshold,  \* Select: reported threshold
    ranked,         \* Select: min_window_quals_and_lengths (sorted keys)
    fast5_files,        \* Integrity: the files found, in the order they are checked
    checked,            \* Integrity: number of files the loop has handled
    good_fast5_count,   \* Integrity: good_fast5_count
    bad_fast5_count,    \* Integrity: bad_fast5_count
    last_read_good,     \* Integrity: last_read_good
    stdout,             \* Integrity: the paths printed to standard output
    stderr              \* Integrity: the strings the loop printed to standard error

vars == <<pc, quals, window_size, mean_out, window_out, tool, item, args, filter_out,
          hdf5_file, best_out, input_reads, idx, passed_reads, passed_bases,
          filtered_reads, total_bases, good_read_names, min_window_qual_threshold,
          ranked, fast5_files, checked, good_fast5_count, bad_fast5_count,
          last_read_good, stdout, stderr>>

\* the state of the integrity checker, and its value while another program runs
integrity == <<fast5_files, checked, good_fast5_count, bad_fast5_count,
               last_read_good, stdout, stderr>>

IntegrityIdle ==
    /\ fast5_files = << >> /\ checked = 0
    /\ good_fast5_count = 0 /\ bad_fast5_count = 0 /\ last_read_good = TRUE
    /\ stdout = << >> /\ stderr = << >>

-----------------------------------------------------------------------------
(* Bounds of the model *)

MaxLen == 4        \* longest quality string / sequence enumerated
MaxWin == 3        \* largest window size enumerated
MaxFilterLen == 3  \* longest sequence / quality string given to check_filters
MaxReads == 3      \* longest input list of main()
MaxTarget == 5     \* largest --target_bases enumerated

-----------------------------------------------------------------------------
(* Python values *)

None == << >>
Some(n) == <<n>>

Ok(v) == [raised |-> "none", value |-> v]
Raise(e) == [raised |-> e, value |-> None]

Abs(n) == IF n < 0 THEN -n ELSE n
Min2(a, b) == IF a < b THEN a ELSE b

RECURSIVE Gcd(_, _)
Gcd(a, b) == IF b = 0 THEN a ELSE Gcd(b, a % b)

\* n / d on floats, d > 0
Frac(n, d) == LET g == Gcd(Abs(n), d) IN <<n \div g, d \div g>>
FAdd(a, b) == Frac(a[1] * b[2] + b[1] * a[2], a[2] * b[2])
FLess(a, b) == a[1] * b[2] < b[1] * a[2]
FLeq(a, b) == a[1] * b[2] <= b[1] * a[2]
Truthy(f) == f[1] # 0

RECURSIVE SumSeq(_)
SumSeq(s) == IF s = << >> THEN 0 ELSE Head(s) + SumSeq(Tail(s))

\* s[:n] for n >= 0
Prefix(s, n) == SubSeq(s, 1, Min2(n, Len(s)))

\* [ord(q) - 33 for q in quals]
Decode(q) == [k \in 1..Len(q) |-> q[k] - 33]

\* statistics.mean(xs)
StatisticsMean(xs) ==
    IF xs = << >> THEN Raise("StatisticsError") ELSE Ok(Frac(SumSeq(xs), Len(xs)))

-----------------------------------------------------------------------------
(* get_mean_qscore, get_min_window_qscore *)

get_mean_qscore(q) ==
    IF Len(q) = 0 THEN Ok(Frac(0, 1))      \* except ZeroDivisionError: return 0.0
    ELSE Ok(Frac(SumSeq(Decode(q)), Len(q)))

\* WindowLoop with the entering score read one position early
RECURSIVE WindowLoopEntersEarly(_, _, _, _, _, _)
WindowLoopEntersEarly(scores, w, shift_count, i, current, lowest) ==
    IF i >= shift_count THEN lowest
    ELSE LET leaving_window == scores[i + 1]
             entering_window == scores[i + w]
             cur == FAdd(current, Frac(entering_window - leaving_window, w))
             low == IF FLess(cur, lowest) THEN cur ELSE lowest
         IN WindowLoopEntersEarly(scores, w, shift_count, i + 1, cur, low)

\* WindowLoop with the comparison reversed (keeps the greatest window mean)
RECURSIVE WindowLoopKeepsGreatest(_, _, _, _, _, _)
WindowLoopKeepsGreatest(scores, w, shift_count, i, current, lowest) ==
    IF i >= shift_count THEN lowest
    ELSE LET leaving_window == scores[i + 1]
             entering_window == scores[i + w + 1]
             cur == FAdd(current, Frac(entering_window - leaving_window, w))
             low == IF FLess(lowest, cur) THEN cur ELSE lowest
         IN WindowLoopKeepsGreatest(scores, w, shift_count, i + 1, cur, low)

\* the loop "for i in range(shift_count)", i counted from 0
RECURSIVE WindowLoop(_, _, _, _, _, _)
WindowLoop(scores, w, shift_count, i, current, lowest) ==
    IF i >= shift_count THEN lowest
    ELSE LET leaving_window == scores[i + 1]
             entering_window == scores[i + w + 1]
             cur == FAdd(current, Frac(entering_window - leaving_window, w))
             low == IF FLess(cur, lowest) THEN cur ELSE lowest
         IN WindowLoop(scores, w, shift_count, i + 1, cur, low)

get_min_window_qscore(q, w) ==
    LET scores == Decode(q)
        first == StatisticsMean(Prefix(scores, w))
        shift_count == Len(scores) - w
    IN IF first.raised # "none" THEN first
       ELSE IF shift_count < 1 THEN first
       ELSE Ok(WindowLoop(scores, w, shift_count, 0, first.value, first.value))

-----------------------------------------------------------------------------
(* Strings *)

\* str.upper() on ASCII
Upper(s) == [k \in 1..Len(s) |-> IF s[k] >= 97 /\ s[k] <= 122 THEN s[k] - 32 ELSE s[k]]

\* sub in s
Contains(s, sub) ==
    \E k \in 0..(Len(s) - Len(sub)) : SubSeq(s, k + 1, k + Len(sub)) = sub

\* s.endswith(sub)
EndsWith(s, sub) ==
    Len(s) >= Len(sub) /\ SubSeq(s, Len(s) - Len(sub) + 1, Len(s)) = sub

\* a < b on str / bytes: by character code, a proper prefix first
RECURSIVE LexLess(_, _)
LexLess(a, b) ==
    IF b = << >> THEN FALSE
    ELSE IF a = << >> THEN TRUE
    ELSE IF Head(a) # Head(b) THEN Head(a) < Head(b)
    ELSE LexLess(Tail(a), Tail(b))

\* sorted(S) for a set of distinct strings
RECURSIVE SortedStrings(_)
SortedStrings(S) ==
    IF S = {} THEN << >>
    ELSE LET least == CHOOSE x \in S : \A y \in S : y = x \/ LexLess(x, y)
         IN <<least>> \o SortedStrings(S \ {least})

\* xs[-1]
Last(xs) == xs[Len(xs)]

STR_FASTQ == <<70, 65, 83, 84, 81>>          \* 'FASTQ'
STR_BASECALLED_2D == <<66, 65, 83, 69, 67, 65, 76, 76, 69, 68, 95, 50, 68>>  \* 'BASECALLED_2D'
STR_TEMPLATE == <<84, 69, 77, 80, 76, 65, 84, 69>>       \* 'TEMPLATE'
STR_COMPLEMENT == <<67, 79, 77, 80, 76, 69, 77, 69, 78, 84>>     \* 'COMPLEMENT'

-----------------------------------------------------------------------------
(* get_mean_score, get_best_fastq_hdf5_location (fast5_to_fastq.py).       *)
(* A file is [name, readable, names, value]: its path, whether h5py opens  *)
(* and visits it, the set of its HDF5 names and the lines of each dataset. *)

\* statistics.mean([ord(c) - 33 for c in value.split('\n')[3]])
get_mean_score(file, basecall_location) ==
    LET parts == file.value[basecall_location]
    IN IF Len(parts) < 4 THEN Raise("IndexError")
       ELSE StatisticsMean(Decode(parts[4]))

\* get_best_fastq_hdf5_location with ">=" replaced by ">"
get_best_fastq_hdf5_locationStrict(file, names) ==
    LET basecall_locations ==
            SortedStrings({x \in names : EndsWith(Upper(x), STR_FASTQ)})
        Is2D(x) == Contains(Upper(x), STR_BASECALLED_2D)
        IsTemplate(x) == Contains(Upper(x), STR_TEMPLATE)
        IsComplement(x) == Contains(Upper(x), STR_COMPLEMENT)
        two_d_locations == SelectSeq(basecall_locations, Is2D)
        template_locations == SelectSeq(basecall_locations, IsTemplate)
        complement_locations == SelectSeq(basecall_locations, IsComplement)
    IN IF two_d_locations # << >> THEN Ok(Last(two_d_locations))
       ELSE IF template_locations # << >> /\ complement_locations # << >> THEN
            LET template_location == Last(template_locations)
                complement_location == Last(complement_locations)
                mean_template_qscore == get_mean_score(file, template_location)
                mean_complement_qscore == get_mean_score(file, complement_location)
            IN IF mean_template_qscore.raised # "none" THEN mean_template_qscore
               ELSE IF mean_complement_qscore.raised # "none" THEN mean_complement_qscore
               ELSE IF FLess(mean_complement_qscore.value, mean_template_qscore.value)
                    THEN Ok(template_location)
               ELSE Ok(complement_location)
       ELSE IF template_locations # << >> THEN Ok(Last(template_locations))
       ELSE IF complement_locations # << >> THEN Ok(Last(complement_locations))
       ELSE IF basecall_locations # << >> THEN Ok(Last(basecall_locations))
       ELSE Ok(None)

get_best_fastq_hdf5_location(file, names) ==
    LET basecall_locations ==
            SortedStrings({x \in names : EndsWith(Upper(x), STR_FASTQ)})
        Is2D(x) == Contains(Upper(x), STR_BASECALLED_2D)
        IsTemplate(x) == Contains(Upper(x), STR_TEMPLATE)
        IsComplement(x) == Contains(Upper(x), STR_COMPLEMENT)
        two_d_locations == SelectSeq(basecall_locations, Is2D)
        template_locations == SelectSeq(basecall_locations, IsTemplate)
        complement_locations == SelectSeq(basecall_locations, IsComplement)
    IN IF two_d_locations # << >> THEN Ok(Last(two_d_locations))
       ELSE IF template_locations # << >> /\ complement_locations # << >> THEN
            LET template_location == Last(template_locations)
                complement_location == Last(complement_locations)
                mean_template_qscore == get_mean_score(file, template_location)
                mean_complement_qscore == get_mean_score(file, complement_location)
            IN IF mean_template_qscore.raised # "none" THEN mean_template_qscore
               ELSE IF mean_complement_qscore.raised # "none" THEN mean_complement_qscore
               ELSE IF FLeq(mean_complement_qscore.value, mean_template_qscore.value)
                    THEN Ok(template_location)
               ELSE Ok(complement_location)
       ELSE IF template_locations # << >> THEN Ok(Last(template_locations))
       ELSE IF complement_locations # << >> THEN Ok(Last(complement_locations))
       ELSE IF basecall_locations # << >> THEN Ok(Last(basecall_locations))
       ELSE Ok(None)

-----------------------------------------------------------------------------
(* check_filters of fastq_to_fastq.py and of fast5_to_fastq.py.            *)
(* Thresholds are floats (min_mean_qual, min_qual_window) or ints.         *)

\* the threshold tests shared by both check_filters, after the emptiness test
ThresholdTests(seq, q, min_length, min_mean_qual, min_qual_window, w) ==
    IF Truthy(min_mean_qual) /\ FLess(get_mean_qscore(q).value, min_mean_qual)
        THEN Ok(<<FALSE, 0>>)
    ELSE IF min_length # 0 /\ Len(seq) < min_length
        THEN Ok(<<FALSE, 0>>)
    ELSE IF Truthy(min_qual_window)
        THEN LET lowest == get_min_window_qscore(q, w)
             IN IF lowest.raised # "none" THEN lowest
                ELSE IF FLess(lowest.value, min_qual_window) THEN Ok(<<FALSE, 0>>)
                ELSE Ok(<<TRUE, Len(seq)>>)
    ELSE Ok(<<TRUE, Len(seq)>>)

\* check_filters with "len(seq) < min_length" written "<="
check_filtersLengthOff(seq, q, min_length, min_mean_qual, min_qual_window, w) ==
    IF seq = << >> THEN Ok(<<FALSE, 0>>)
    ELSE IF Truthy(min_mean_qual) /\ FLess(get_mean_qscore(q).value, min_mean_qual)
        THEN Ok(<<FALSE, 0>>)
    ELSE IF min_length # 0 /\ Len(seq) <= min_length
        THEN Ok(<<FALSE, 0>>)
    ELSE IF Truthy(min_qual_window)
        THEN LET lowest == get_min_window_qscore(q, w)
             IN IF lowest.raised # "none" THEN lowest
                ELSE IF FLess(lowest.value, min_qual_window) THEN Ok(<<FALSE, 0>>)
                ELSE Ok(<<TRUE, Len(seq)>>)
    ELSE Ok(<<TRUE, Len(seq)>>)

\* fastq_to_fastq.py
check_filters(seq, q, min_length, min_mean_qual, min_qual_window, w) ==
    IF seq = << >> THEN Ok(<<FALSE, 0>>)
    ELSE ThresholdTests(seq, q, min_length, min_mean_qual, min_qual_window, w)

\* fast5_to_fastq.py; IOError and RuntimeError are caught, nothing else is
fast5_check_filters(file, min_length, min_mean_qual, min_qual_window, w) ==
    IF ~file.readable THEN Ok(<<FALSE, 0>>)
    ELSE LET basecall_location == get_best_fastq_hdf5_location(file, file.names)
         IN IF basecall_location.raised # "none" THEN basecall_location
            ELSE IF basecall_location.value = None THEN Ok(<<FALSE, 0>>)
            ELSE LET parts == file.value[basecall_location.value]
                     fastq_str_empty == (parts = << << >> >>)
                     split_ok == Len(parts) >= 4
                     seq == IF split_ok THEN parts[2] ELSE << >>
                     q == IF split_ok THEN parts[4] ELSE << >>
                 IN IF ~split_ok \/ fastq_str_empty \/ seq = << >>
                        THEN Ok(<<FALSE, 0>>)
                    ELSE ThresholdTests(seq, q, min_length, min_mean_qual,
                                        min_qual_window, w)

-----------------------------------------------------------------------------
(* Target-size selection: main() of both tools, lines 42-65 / 42-63.       *)
(* A key is <<min_window_qual, length, name>>.                             *)

\* fastq_to_fastq.py
min_window_qual_and_length(name, q, w) ==
    LET lowest == get_min_window_qscore(q, w)
    IN IF lowest.raised # "none" THEN lowest
       ELSE Ok(<<lowest.value, Len(q), name>>)

\* fast5_to_fastq.py; IOError and RuntimeError are caught, and IndexError
\* around the split, nothing else is
fast5_min_window_qual_and_length(file, w) ==
    IF ~file.readable THEN Ok(<<Frac(0, 1), 0, file.name>>)
    ELSE LET basecall_location == get_best_fastq_hdf5_location(file, file.names)
         IN IF basecall_location.raised # "none" THEN basecall_location
            ELSE IF basecall_location.value = None
                THEN Ok(<<Frac(0, 1), 0, file.name>>)
            ELSE LET parts == file.value[basecall_location.value]
                 IN IF Len(parts) < 4 THEN Ok(<<Frac(0, 1), 0, file.name>>)
                    ELSE LET lowest == get_min_window_qscore(parts[4], w)
                         IN IF lowest.raised # "none" THEN lowest
                            ELSE Ok(<<lowest.value, Len(parts[2]), file.name>>)

KeyOf(tl, read, w) ==
    IF tl = "fastq" THEN min_window_qual_and_length(read.name, read.quals, w)
    ELSE fast5_min_window_qual_and_length(read, w)

\* [min_window_qual_and_length(...) for ... in filtered_reads]
RECURSIVE KeysOf(_, _, _)
KeysOf(tl, reads, w) ==
    IF reads = << >> THEN Ok(<< >>)
    ELSE LET first == KeyOf(tl, Head(reads), w)
         IN IF first.raised # "none" THEN first
            ELSE LET rest == KeysOf(tl, Tail(reads), w)
                 IN IF rest.raised # "none" THEN rest
                    ELSE Ok(<<first.value>> \o rest.value)

\* a < b on the key tuples
KeyLess(a, b) ==
    IF a[1] # b[1] THEN FLess(a[1], b[1])
    ELSE IF a[2] # b[2] THEN a[2] < b[2]
    ELSE LexLess(a[3], b[3])

RECURSIVE InsertDesc(_, _)
InsertDesc(k, sorted) ==
    IF sorted = << >> THEN <<k>>
    ELSE IF KeyLess(Head(sorted), k) THEN <<k>> \o sorted
    ELSE <<Head(sorted)>> \o InsertDesc(k, Tail(sorted))

\* sorted(keys) without reverse=True and without sorting: the list as built
SortedDescUnsorted(keys) == keys

\* sorted(keys, reverse=True)
RECURSIVE SortedDesc(_)
SortedDesc(keys) ==
    IF keys = << >> THEN << >>
    ELSE InsertDesc(Head(keys), SortedDesc(Tail(keys)))

\* Walk with "total_bases >= args.target_bases" as the stopping test
RECURSIVE WalkStopsAtTarget(_, _, _, _, _, _)
WalkStopsAtTarget(keys, target, i, total, threshold, good) ==
    IF i > Len(keys) THEN [total |-> total, threshold |-> threshold, good |-> good]
    ELSE LET tot == total + keys[i][2]
             thr == keys[i][1]
             gd == good \cup {keys[i][3]}
         IN IF tot >= target THEN [total |-> tot, threshold |-> thr, good |-> gd]
            ELSE WalkStopsAtTarget(keys, target, i + 1, tot, thr, gd)

\* the loop over min_window_quals_and_lengths, from its i-th key
RECURSIVE Walk(_, _, _, _, _, _)
Walk(keys, target, i, total, threshold, good) ==
    IF i > Len(keys) THEN [total |-> total, threshold |-> threshold, good |-> good]
    ELSE LET tot == total + keys[i][2]
             thr == keys[i][1]
             gd == good \cup {keys[i][3]}
         IN IF tot > target THEN [total |-> tot, threshold |-> thr, good |-> gd]
            ELSE Walk(keys, target, i + 1, tot, thr, gd)

\* SelectionBranch with "if args.target_bases is not None"
SelectionBranchNotNone(total, target) ==
    IF target = None THEN "skip"
    ELSE IF total < target[1] THEN "not_enough"
    ELSE "trim"

\* "if args.target_bases:" and "if total_bases < args.target_bases:"
SelectionBranch(total, target) ==
    IF target = None \/ target = Some(0) THEN "skip"
    ELSE IF total < target[1] THEN "not_enough"
    ELSE "trim"

\* [r for r in filtered_reads if name in good_read_names]
KeepGood(reads, good) == SelectSeq(reads, LAMBDA r : r.name \in good)

\* lines 42-65 of fastq_to_fastq.py, 42-63 of fast5_to_fastq.py
SelectOutcome(tl, reads, total, a) ==
    IF SelectionBranch(total, a.target_bases) # "trim"
    THEN [raised |-> "none", reads |-> reads, total |-> total, good |-> {},
          threshold |-> Frac(0, 1), ranked |-> << >>]
    ELSE LET keys == KeysOf(tl, reads, a.window_size)
         IN IF keys.raised # "none"
            THEN [raised |-> keys.raised, reads |-> reads, total |-> total, good |-> {},
                  threshold |-> Frac(0, 1), ranked |-> << >>]
            ELSE LET sorted == SortedDesc(keys.value)
                     w == Walk(sorted, a.target_bases[1], 1, 0, Frac(0, 1), {})
                 IN [raised |-> "none", reads |-> KeepGood(reads, w.good),
                     total |-> w.total, good |-> w.good, threshold |-> w.threshold,
                     ranked |-> sorted]

-----------------------------------------------------------------------------
(* HDF5 names and dataset values the files are built from *)

\* 'A0/BaseCalled_2D/Fastq'
Loc2D0 ==
    <<65, 48, 47, 66, 97, 115, 101, 67, 97, 108, 108, 101, 100, 95, 50, 68, 47, 70, 97, 115, 116, 113>>
\* 'A1/BaseCalled_2D/Fastq'
Loc2D1 ==
    <<65, 49, 47, 66, 97, 115, 101, 67, 97, 108, 108, 101, 100, 95, 50, 68, 47, 70, 97, 115, 116, 113>>
\* 'A0/BaseCalled_template/Fastq'
LocTemplate0 ==
    <<65, 48, 47, 66, 97, 115, 101, 67, 97, 108, 108, 101, 100, 95, 116, 101, 109, 112, 108, 97, 116, 101, 47, 70, 97, 115, 116, 113>>
\* 'A1/BaseCalled_template/Fastq'
LocTemplate1 ==
    <<65, 49, 47, 66, 97, 115, 101, 67, 97, 108, 108, 101, 100, 95, 116, 101, 109, 112, 108, 97, 116, 101, 47, 70, 97, 115, 116, 113>>
\* 'A0/BaseCalled_complement/Fastq'
LocComplement0 ==
    <<65, 48, 47, 66, 97, 115, 101, 67, 97, 108, 108, 101, 100, 95, 99, 111, 109, 112, 108, 101, 109, 101, 110, 116, 47, 70, 97, 115, 116, 113>>
\* 'A1/BaseCalled_complement/Fastq'
LocComplement1 ==
    <<65, 49, 47, 66, 97, 115, 101, 67, 97, 108, 108, 101, 100, 95, 99, 111, 109, 112, 108, 101, 109, 101, 110, 116, 47, 70, 97, 115, 116, 113>>
\* 'A0/Raw/fastq'
LocOther0 ==
    <<65, 48, 47, 82, 97, 119, 47, 102, 97, 115, 116, 113>>
\* 'Z9/Raw/Fastq'
LocOther1 ==
    <<90, 57, 47, 82, 97, 119, 47, 70, 97, 115, 116, 113>>
\* 'Z9/BaseCalled_template/Events'
LocEvents ==
    <<90, 57, 47, 66, 97, 115, 101, 67, 97, 108, 108, 101, 100, 95, 116, 101, 109, 112, 108, 97, 116, 101, 47, 69, 118, 101, 110, 116, 115>>

\* lines of FASTQ records: '@r', a sequence, '+', a quality string
LineHeader == <<64, 114>>
LinePlus == <<43>>
SeqACG == <<65, 67, 71>>

-----------------------------------------------------------------------------
(* Input alphabets *)

\* quality symbols '!', '"' and '$': scores 0, 1 and 3
QualChars == {33, 34, 36}

QualStrings == UNION {[1..n -> QualChars] : n \in 0..MaxLen}
WindowSizes == 1..MaxWin

Pending == [raised |-> "pending", value |-> None]

-----------------------------------------------------------------------------
(* Scan: the two scoring functions applied to every quality string *)

ScanIdle ==
    /\ tool = "none" /\ item = None /\ args = None /\ filter_out = Pending
    /\ hdf5_file = None /\ best_out = Pending
    /\ input_reads = << >> /\ idx = 0 /\ passed_reads = << >> /\ passed_bases = 0
    /\ filtered_reads = << >> /\ total_bases = 0 /\ good_read_names = {}
    /\ min_window_qual_threshold = Frac(0, 1) /\ ranked = << >>

InitScan ==
    /\ pc = "scan"
    /\ quals \in QualStrings
    /\ window_size \in WindowSizes
    /\ mean_out = Pending
    /\ window_out = Pending
    /\ ScanIdle
    /\ IntegrityIdle

CallMeanQscore ==
    /\ pc = "scan"
    /\ mean_out = Pending
    /\ mean_out' = get_mean_qscore(quals)
    /\ UNCHANGED <<pc, quals, window_size, window_out, tool, item, args, filter_out,
                   hdf5_file, best_out, input_reads, idx, passed_reads, passed_bases,
                   filtered_reads, total_bases, good_read_names,
                   min_window_qual_threshold, ranked, integrity>>

CallMinWindowQscore ==
    /\ pc = "scan"
    /\ window_out = Pending
    /\ window_out' = get_min_window_qscore(quals, window_size)
    /\ UNCHANGED <<pc, quals, window_size, mean_out, tool, item, args, filter_out,
                   hdf5_file, best_out, input_reads, idx, passed_reads, passed_bases,
                   filtered_reads, total_bases, good_read_names,
                   min_window_qual_threshold, ranked, integrity>>

NextScan == CallMeanQscore \/ CallMinWindowQscore

SpecScan == InitScan /\ [][NextScan]_vars

-----------------------------------------------------------------------------
(* Claims about the scoring functions, checked under SpecScan *)

\* the windows of length n of a list of scores, by brute force
WindowMeans(scores, n) ==
    {Frac(SumSeq(SubSeq(scores, s, s + n - 1)), n) : s \in 1..(Len(scores) - n + 1)}

IsLeast(m, S) == m \in S /\ \A x \in S : FLeq(m, x)

C6_WindowMinAtMostMean ==
    (window_out # Pending /\ mean_out # Pending /\ quals # << >>) =>
        FLeq(window_out.value, mean_out.value)

\* C6 amended: the windowed minimum does not exceed the overall mean when the
\* window covers the whole string or the window size divides the length.
C6_WindowMinAtMostMeanWhenTiled ==
    (/\ window_out # Pending /\ mean_out # Pending /\ quals # << >>
     /\ (window_size >= Len(quals) \/ Len(quals) % window_size = 0)) =>
        FLeq(window_out.value, mean_out.value)

\* a string tiled by two or more windows whose minimum is below the mean
C6_Witness ==
    /\ window_out # Pending /\ mean_out # Pending
    /\ window_size >= 2
    /\ Len(quals) = 2 * window_size
    /\ FLess(window_out.value, mean_out.value)

\* C7: for an empty quality string get_mean_qscore and get_min_window_qscore
\* both return 0 and neither raises.
C7_EmptyQualityScoresZero ==
    (quals = << >> /\ mean_out # Pending /\ window_out # Pending) =>
        /\ mean_out = Ok(Frac(0, 1))
        /\ window_out = Ok(Frac(0, 1))

-----------------------------------------------------------------------------
(* Resolve: get_best_fastq_hdf5_location applied to files holding any      *)
(* subset of the names; the template and complement datasets hold any of   *)
(* the four records, the other datasets (never read here) hold RecHigh.    *)

RecHigh == <<LineHeader, SeqACG, LinePlus, <<36, 36, 36>>>>     \* mean score 3
RecLow == <<LineHeader, SeqACG, LinePlus, <<34, 34, 34>>>>      \* mean score 1
RecEmptyQual == <<LineHeader, SeqACG, LinePlus, << >>>>        \* quality line empty
RecTruncated == <<LineHeader, SeqACG>>                         \* quality line missing

StrandNames == {LocTemplate0, LocTemplate1, LocComplement0, LocComplement1}
OtherNames == {Loc2D0, Loc2D1, LocOther0, LocOther1, LocEvents}
StrandRecords == {RecHigh, RecLow, RecEmptyQual, RecTruncated}

\* 'a.fast5'
PathA == <<97, 46, 102, 97, 115, 116, 53>>

ResolveIdle ==
    /\ quals = << >> /\ window_size = 1 /\ mean_out = Pending /\ window_out = Pending
    /\ tool = "none" /\ item = None /\ args = None /\ filter_out = Pending
    /\ input_reads = << >> /\ idx = 0 /\ passed_reads = << >> /\ passed_bases = 0
    /\ filtered_reads = << >> /\ total_bases = 0 /\ good_read_names = {}
    /\ min_window_qual_threshold = Frac(0, 1) /\ ranked = << >>

InitResolve ==
    /\ pc = "resolve"
    /\ \E strands \in SUBSET StrandNames, others \in SUBSET OtherNames :
          \E v \in [strands -> StrandRecords] :
             hdf5_file = [name |-> PathA, readable |-> TRUE,
                          names |-> strands \cup others,
                          value |-> [x \in strands \cup others |->
                                        IF x \in strands THEN v[x] ELSE RecHigh]]
    /\ best_out = Pending
    /\ ResolveIdle
    /\ IntegrityIdle

CallGetBestLocation ==
    /\ pc = "resolve"
    /\ best_out' = get_best_fastq_hdf5_location(hdf5_file, hdf5_file.names)
    /\ pc' = "resolved"
    /\ UNCHANGED <<quals, window_size, mean_out, window_out, tool, item, args,
                   filter_out, hdf5_file, input_reads, idx, passed_reads, passed_bases,
                   filtered_reads, total_bases, good_read_names,
                   min_window_qual_threshold, ranked, integrity>>

NextResolve == CallGetBestLocation

SpecResolve == InitResolve /\ [][NextResolve]_vars

-----------------------------------------------------------------------------
(* Claim about the resolver, checked under SpecResolve *)

\* what each name is, and its place in lexicographic order, read off the names
KindOf(x) ==
    CASE x \in {Loc2D0, Loc2D1} -> "2D"
      [] x \in {LocTemplate0, LocTemplate1} -> "template"
      [] x \in {LocComplement0, LocComplement1} -> "complement"
      [] x \in {LocOther0, LocOther1} -> "other"
      [] OTHER -> "none"

RankOf(x) ==
    CASE x = Loc2D0 -> 1
      [] x = LocComplement0 -> 2
      [] x = LocTemplate0 -> 3
      [] x = LocOther0 -> 4
      [] x = Loc2D1 -> 5
      [] x = LocComplement1 -> 6
      [] x = LocTemplate1 -> 7
      [] x = LocEvents -> 8
      [] x = LocOther1 -> 9

OfKind(file, kind) == {x \in file.names : KindOf(x) = kind}
GreatestName(S) == CHOOSE x \in S : \A y \in S : RankOf(y) <= RankOf(x)

QualityLineScored(file, x) == Len(file.value[x]) >= 4 /\ file.value[x][4] # << >>
MeanOfQualityLine(file, x) ==
    Frac(SumSeq(Decode(file.value[x][4])), Len(file.value[x][4]))

-----------------------------------------------------------------------------
(* Filter: check_filters of either tool applied to every read.  A read of  *)
(* fastq_to_fastq is [name, seq, quals]; a read of fast5_to_fastq is a     *)
(* file whose dataset holds the record, a truncated record or nothing.     *)

BaseA == 65     \* 'A'
SeqOfLen(n) == [k \in 1..n |-> BaseA]

FilterSeqs == {SeqOfLen(n) : n \in 0..MaxFilterLen}
FilterQuals == UNION {[1..n -> QualChars] : n \in 0..MaxFilterLen}

LengthThresholds == {0, 2}
QualThresholds == {Frac(0, 1), Frac(1, 1), Frac(3, 2)}
FileShapes == {"record", "truncated", "empty", "unreadable", "nofastq"}

\* 'a'
NameA == <<97>>

MakeFile(path, shape, seq, q) ==
    [name |-> path,
     readable |-> (shape # "unreadable"),
     names |-> IF shape = "nofastq" THEN {LocEvents} ELSE {LocTemplate0, LocEvents},
     value |-> [x \in {LocTemplate0, LocEvents} |->
                  IF shape = "truncated" THEN <<LineHeader, seq>>
                  ELSE IF shape = "empty" THEN << << >> >>
                  ELSE <<LineHeader, seq, LinePlus, q>>]]

FilterIdle ==
    /\ quals = << >> /\ window_size = 1 /\ mean_out = Pending /\ window_out = Pending
    /\ hdf5_file = None /\ best_out = Pending
    /\ input_reads = << >> /\ idx = 0 /\ passed_reads = << >> /\ passed_bases = 0
    /\ filtered_reads = << >> /\ total_bases = 0 /\ good_read_names = {}
    /\ min_window_qual_threshold = Frac(0, 1) /\ ranked = << >>

InitFilter ==
    /\ pc = "filter"
    /\ tool \in {"fastq", "fast5"}
    /\ \E seq \in FilterSeqs, q \in FilterQuals :
          \/ tool = "fastq" /\ item = [name |-> NameA, seq |-> seq, quals |-> q]
          \/ tool = "fast5" /\ \E shape \in FileShapes : item = MakeFile(PathA, shape, seq, q)
    /\ args \in [min_length : LengthThresholds, min_mean_qual : QualThresholds,
                  min_qual_window : QualThresholds, window_size : WindowSizes,
                  target_bases : {None}]
    /\ filter_out = Pending
    /\ FilterIdle
    /\ IntegrityIdle

CallCheckFilters ==
    /\ pc = "filter"
    /\ filter_out' =
          IF tool = "fastq"
          THEN check_filters(item.seq, item.quals, args.min_length, args.min_mean_qual,
                             args.min_qual_window, args.window_size)
          ELSE fast5_check_filters(item, args.min_length, args.min_mean_qual,
                                   args.min_qual_window, args.window_size)
    /\ pc' = "filtered"
    /\ UNCHANGED <<quals, window_size, mean_out, window_out, tool, item, args,
                   hdf5_file, best_out, input_reads, idx, passed_reads, passed_bases,
                   filtered_reads, total_bases, good_read_names,
                   min_window_qual_threshold, ranked, integrity>>

NextFilter == CallCheckFilters

SpecFilter == InitFilter /\ [][NextFilter]_vars

-----------------------------------------------------------------------------
(* Claims about check_filters, checked under SpecFilter *)

\* the read a fast5 file of the Filter inputs holds: its dataset's lines
HeldLines == item.value[LocTemplate0]
HoldsRecord == tool = "fast5" /\ item.readable /\ LocTemplate0 \in item.names
ReadSeq == IF tool = "fastq" THEN item.seq
           ELSE IF Len(HeldLines) >= 2 THEN HeldLines[2] ELSE << >>
ReadQuals == IF tool = "fastq" THEN item.quals
             ELSE IF Len(HeldLines) >= 4 THEN HeldLines[4] ELSE << >>

WellFormedRead ==
    /\ tool = "fast5" => HoldsRecord
    /\ ReadSeq # << >>
    /\ Len(ReadQuals) = Len(ReadSeq)

MalformedRead ==
    /\ tool = "fast5" => HoldsRecord
    /\ (ReadSeq = << >> \/ ReadQuals = << >> \/ Len(ReadQuals) # Len(ReadSeq))

\* every threshold that is set is met, the scores taken by brute force
ThresholdsMet ==
    LET scores == Decode(ReadQuals)
        n == Min2(args.window_size, Len(scores))
    IN /\ Truthy(args.min_mean_qual) =>
              FLeq(args.min_mean_qual, Frac(SumSeq(scores), Len(scores)))
       /\ args.min_length # 0 => Len(ReadSeq) >= args.min_length
       /\ Truthy(args.min_qual_window) =>
              \A m \in WindowMeans(scores, n) : FLeq(args.min_qual_window, m)

NoThresholds ==
    args.min_length = 0 /\ ~Truthy(args.min_mean_qual) /\ ~Truthy(args.min_qual_window)

\* C3: for a read with non-empty sequence and quality of equal length,
\* check_filters returns (True, len(sequence)) if and only if every threshold
\* that is set is met (mean quality, length, minimum windowed quality), and
\* (False, 0) otherwise; with no threshold set it passes.
C3_PassesIffThresholdsMet ==
    (pc = "filtered" /\ WellFormedRead) =>
        /\ filter_out = IF ThresholdsMet THEN Ok(<<TRUE, Len(ReadSeq)>>)
                        ELSE Ok(<<FALSE, 0>>)
        /\ (NoThresholds => filter_out = Ok(<<TRUE, Len(ReadSeq)>>))

\* a read that meets the mean and length thresholds exactly and is rejected
\* by the windowed threshold alone
C3_Witness ==
    /\ pc = "filtered" /\ WellFormedRead
    /\ args.min_length = Len(ReadSeq)
    /\ args.min_mean_qual = Frac(SumSeq(Decode(ReadQuals)), Len(ReadQuals))
    /\ Truthy(args.min_qual_window)
    /\ args.window_size < Len(ReadQuals)
    /\ filter_out = Ok(<<FALSE, 0>>)

\* C8: for a malformed read (sequence empty, quality empty or missing, or
\* quality length different from sequence length) check_filters returns
\* (False, 0) and does not raise.
C8_MalformedReadFails ==
    (pc = "filtered" /\ MalformedRead) => filter_out = Ok(<<FALSE, 0>>)

-----------------------------------------------------------------------------
(* Select: main() of either tool, from the loaded reads to the emitted     *)
(* list.  Reads of fastq_to_fastq come from ReadPool (names may repeat and *)
(* a quality string may differ in length from its sequence or be empty, as *)
(* load_fastq allows); files of fast5_to_fastq come from FilePool, each    *)
(* path at most once, as find_all_fast5s yields them.                      *)

Read(name, seq, q) == [name |-> name, seq |-> seq, quals |-> q]

ReadPool ==
    {Read(<<97>>, SeqOfLen(3), <<36, 36, 36>>),     \* a  AAA  $$$
     Read(<<98>>, SeqOfLen(2), <<34, 36>>),         \* b  AA   "$
     Read(<<99>>, SeqOfLen(2), <<36, 34>>),         \* c  AA   $"
     Read(<<99>>, SeqOfLen(2), <<33, 33>>),         \* c  AA   !!   (name repeated)
     Read(<<100>>, SeqOfLen(3), <<36>>),             \* d  AAA  $    (lengths differ)
     Read(<<101>>, SeqOfLen(1), << >>)}              \* e  A         (no quality)

\* 'b.fast5' ... 'e.fast5'
PathB == <<98, 46, 102, 97, 115, 116, 53>>
PathC == <<99, 46, 102, 97, 115, 116, 53>>
PathD == <<100, 46, 102, 97, 115, 116, 53>>
PathE == <<101, 46, 102, 97, 115, 116, 53>>

Fast5(path, readable, value) ==
    [name |-> path, readable |-> readable, names |-> DOMAIN value, value |-> value]

FilePool ==
    {Fast5(PathA, TRUE,
           (LocTemplate0 :> <<LineHeader, SeqOfLen(3), LinePlus, <<36, 36, 36>>>>)),
     Fast5(PathB, TRUE,
           (LocTemplate0 :> <<LineHeader, SeqOfLen(2), LinePlus, <<34, 34>>>>)
           @@ (LocComplement0 :> <<LineHeader, SeqOfLen(2), LinePlus, <<34, 36>>>>)),
     Fast5(PathC, TRUE,
           (LocTemplate0 :> <<LineHeader, SeqOfLen(2), LinePlus, <<36, 34>>>>)
           @@ (LocEvents :> << << >> >>)),
     Fast5(PathD, FALSE,
           (LocTemplate0 :> <<LineHeader, SeqOfLen(2), LinePlus, <<36, 36>>>>)),
     Fast5(PathE, TRUE,
           (LocOther0 :> <<LineHeader, SeqOfLen(1), LinePlus, << >>>>))}

ListsOver(S, n) == UNION {[1..k -> S] : k \in 0..n}
Distinct(xs) == \A i, j \in 1..Len(xs) : i # j => xs[i] # xs[j]

SelectWindowSizes == {1, 2}
TargetBases == {None} \cup {Some(n) : n \in 0..MaxTarget}

SelectIdle ==
    /\ quals = << >> /\ window_size = 1 /\ mean_out = Pending /\ window_out = Pending
    /\ item = None /\ filter_out = Pending /\ hdf5_file = None /\ best_out = Pending

InitSelect ==
    /\ pc = "filter"
    /\ tool \in {"fastq", "fast5"}
    /\ \/ tool = "fastq" /\ input_reads \in ListsOver(ReadPool, MaxReads)
       \/ /\ tool = "fast5" /\ input_reads \in ListsOver(FilePool, MaxReads)
          /\ Distinct(input_reads)
    /\ args \in [min_length : LengthThresholds, min_mean_qual : {Frac(0, 1)},
                  min_qual_window : {Frac(0, 1), Frac(1, 1)},
                  window_size : SelectWindowSizes, target_bases : TargetBases]
    /\ idx = 0
    /\ passed_reads = << >> /\ passed_bases = 0
    /\ filtered_reads = << >> /\ total_bases = 0
    /\ good_read_names = {} /\ min_window_qual_threshold = Frac(0, 1)
    /\ ranked = << >>
    /\ SelectIdle
    /\ IntegrityIdle

untouched == <<quals, window_size, mean_out, window_out, tool, item, args, filter_out,
               hdf5_file, best_out, input_reads, integrity>>

\* "if not input_reads: sys.exit()"
ExitNoInput ==
    /\ pc = "filter"
    /\ input_reads = << >>
    /\ pc' = "exit"
    /\ UNCHANGED <<untouched, idx, passed_reads, passed_bases, filtered_reads,
                   total_bases, good_read_names, min_window_qual_threshold, ranked>>

\* one pass of the filter loop; an exception check_filters lets through ends main
FilterRead ==
    /\ pc = "filter"
    /\ idx < Len(input_reads)
    /\ LET read == input_reads[idx + 1]
           out == IF tool = "fastq"
                  THEN check_filters(read.seq, read.quals, args.min_length,
                                     args.min_mean_qual, args.min_qual_window,
                                     args.window_size)
                  ELSE fast5_check_filters(read, args.min_length, args.min_mean_qual,
                                           args.min_qual_window, args.window_size)
       IN IF out.raised # "none"
          THEN /\ pc' = "crashed"
               /\ UNCHANGED <<filtered_reads, total_bases>>
          ELSE /\ pc' = pc
               /\ filtered_reads' = IF out.value[1] THEN Append(filtered_reads, read)
                                    ELSE filtered_reads
               /\ total_bases' = IF out.value[1] THEN total_bases + out.value[2]
                                 ELSE total_bases
    /\ idx' = idx + 1
    /\ UNCHANGED <<untouched, passed_reads, passed_bases, good_read_names,
                   min_window_qual_threshold, ranked>>

\* after the loop: "reads remain after filtering"; "if not filtered_reads: sys.exit()"
FilterEnd ==
    /\ pc = "filter"
    /\ input_reads # << >>
    /\ idx = Len(input_reads)
    /\ passed_reads' = filtered_reads
    /\ passed_bases' = total_bases
    /\ pc' = IF filtered_reads = << >> THEN "exit" ELSE "select"
    /\ UNCHANGED <<untouched, idx, filtered_reads, total_bases, good_read_names,
                   min_window_qual_threshold, ranked>>

\* lines 42-65 / 42-63: nothing to do without --target_bases (or with 0) or
\* when the target cannot be reached; otherwise the reads are ranked and
\* trimmed, and an exception raised while ranking ends main
Select ==
    /\ pc = "select"
    /\ \E outcome \in {SelectOutcome(tool, filtered_reads, total_bases, args)} :
          /\ filtered_reads' = outcome.reads
          /\ total_bases' = outcome.total
          /\ good_read_names' = outcome.good
          /\ min_window_qual_threshold' = outcome.threshold
          /\ ranked' = outcome.ranked
          /\ pc' = IF outcome.raised # "none" THEN "crashed" ELSE "emit"
    /\ UNCHANGED <<untouched, idx, passed_reads, passed_bases>>

\* "Printing FASTQs to stdout": filtered_reads is what is emitted
Emit ==
    /\ pc = "emit"
    /\ pc' = "done"
    /\ UNCHANGED <<untouched, idx, passed_reads, passed_bases, filtered_reads,
                   total_bases, good_read_names, min_window_qual_threshold, ranked>>

NextSelect ==
    \/ ExitNoInput
    \/ FilterRead
    \/ FilterEnd
    \/ Select
    \/ Emit

SpecSelect == InitSelect /\ [][NextSelect]_vars

-----------------------------------------------------------------------------
(* Claims about target-size selection, checked under SpecSelect.           *)
(* passed_reads and passed_bases are the filtered reads and their total as *)
(* selection received them.                                                *)

Target == args.target_bases[1]
TargetSet == args.target_bases # None /\ args.target_bases # Some(0)
SelectionRan == pc = "done" /\ TargetSet /\ passed_bases >= Target

\* the sequence and quality string of a read (for a file: of its best record)
SeqOfRead(r) ==
    IF tool = "fastq" THEN r.seq
    ELSE r.value[get_best_fastq_hdf5_location(r, r.names).value][2]
QualsOfRead(r) ==
    IF tool = "fastq" THEN r.quals
    ELSE r.value[get_best_fastq_hdf5_location(r, r.names).value][4]

\* minimum windowed quality by brute force
ScoreOfRead(r) ==
    LET scores == Decode(QualsOfRead(r))
        means == WindowMeans(scores, Min2(args.window_size, Len(scores)))
    IN CHOOSE m \in means : \A x \in means : FLeq(m, x)

\* the length selection counts for a read: fastq_to_fastq measures the
\* quality string, fast5_to_fastq the sequence
CountedLength(r) == IF tool = "fastq" THEN Len(QualsOfRead(r)) ELSE Len(SeqOfRead(r))

TupleLess(a, b) ==
    \/ FLess(a[1], b[1])
    \/ a[1] = b[1] /\ a[2] < b[2]
    \/ a[1] = b[1] /\ a[2] = b[2] /\ LexLess(a[3], b[3])

Perms(n) == {p \in [1..n -> 1..n] : \A i, j \in 1..n : i # j => p[i] # p[j]}

\* the orders of passed_reads that are descending in the 3-tuple key, the
\* length taken by Length(_)
RankingsBy(Length(_)) ==
    LET key(r) == <<ScoreOfRead(r), Length(r), r.name>>
    IN {p \in Perms(Len(passed_reads)) :
          \A i, j \in 1..Len(passed_reads) :
             i < j => ~TupleLess(key(passed_reads[p[i]]), key(passed_reads[p[j]]))}

RECURSIVE CumulativeBy(_, _, _)
CumulativeBy(Length(_), p, k) ==
    IF k = 0 THEN 0 ELSE CumulativeBy(Length, p, k - 1) + Length(passed_reads[p[k]])

SeqLength(r) == Len(SeqOfRead(r))
EmittedSet == {filtered_reads[i] : i \in 1..Len(filtered_reads)}
EmittedBases == SumSeq([i \in 1..Len(filtered_reads) |-> SeqLength(filtered_reads[i])])

DistinctNames ==
    \A i, j \in 1..Len(passed_reads) :
       i # j => passed_reads[i].name # passed_reads[j].name
EqualLengths ==
    \A i \in 1..Len(passed_reads) :
       Len(QualsOfRead(passed_reads[i])) = Len(SeqOfRead(passed_reads[i]))

C5_NoTargetNoChange ==
    (pc = "done" /\ (~TargetSet \/ Target > passed_bases)) =>
        /\ filtered_reads = passed_reads
        /\ total_bases = passed_bases

\* target_bases is 0 and three reads of different scores pass unchanged
C5_Witness ==
    /\ pc = "done"
    /\ args.target_bases = Some(0)
    /\ Len(passed_reads) = 3
    /\ filtered_reads = passed_reads
    /\ DistinctNames /\ EqualLengths
    /\ ScoreOfRead(passed_reads[1]) # ScoreOfRead(passed_reads[2])

\* C9: when selection trims, the reported threshold is the minWindowScore of
\* the last read added in ranked order, and every emitted read has a
\* minWindowScore greater than or equal to the threshold.
C9_ThresholdBoundsEmitted ==
    SelectionRan =>
        /\ \A p \in RankingsBy(CountedLength) :
              LET n == Len(passed_reads)
                  over == {k \in 1..n : CumulativeBy(CountedLength, p, k) > Target}
                  k == IF over = {} THEN n ELSE CHOOSE x \in over : \A y \in over : x <= y
              IN min_window_qual_threshold = ScoreOfRead(passed_reads[p[k]])
        /\ \A i \in 1..Len(filtered_reads) :
              FLeq(min_window_qual_threshold, ScoreOfRead(filtered_reads[i]))

Permuted(xs, p) == [i \in 1..Len(xs) |-> xs[p[i]]]

\* C10: the reads kept, the reported threshold and the reported total are the
\* same for every order in which the filtered reads are supplied.
C10_SelectionIgnoresInputOrder ==
    (pc = "done") =>
        \A p \in Perms(Len(passed_reads)) :
           LET o == SelectOutcome(tool, Permuted(passed_reads, p), passed_bases, args)
           IN /\ o.raised = "none"
              /\ o.good = good_read_names
              /\ o.threshold = min_window_qual_threshold
              /\ o.total = total_bases
              /\ {o.reads[i] : i \in 1..Len(o.reads)} = EmittedSet
              /\ Len(o.reads) = Len(filtered_reads)

\* three reads, supplied worst first, of which selection drops the first
C10_Witness ==
    /\ SelectionRan /\ DistinctNames /\ EqualLengths
    /\ Len(passed_reads) = 3
    /\ Len(filtered_reads) = 2
    /\ passed_reads[1].name \notin good_read_names
    /\ FLess(ScoreOfRead(passed_reads[1]), ScoreOfRead(passed_reads[2]))
    /\ FLess(ScoreOfRead(passed_reads[2]), ScoreOfRead(passed_reads[3]))

\* C11: in fastq_to_fastq, once the run has emitted its reads, the reported
\* total base count equals the sum of the sequence lengths of the reads in
\* the emitted list, whatever the input list (repeated names and quality
\* strings of another length than the sequence included).
C11_ReportedTotalIsEmittedBases ==
    (pc = "done" /\ tool = "fastq") => total_bases = EmittedBases

-----------------------------------------------------------------------------
(* Integrity: main() of fast5_integrity_check.py over a list of files *)

MaxFiles == 3        \* longest list of files given to the integrity checker
ProgressEvery == 100 \* a progress dot is printed for every 100th good file

\* A file as the checker sees it: its path, the exception h5py.File raises on
\* it and the exception get_hdf5_names raises on the opened file ("none": no
\* exception).
CheckedFile(path, open, visit) == [path |-> path, open |-> open, visit |-> visit]

FileBehaviours ==
    {<<"none", "none">>,            \* opens and traverses cleanly
     <<"IOError", "none">>,         \* cannot be opened
     <<"none", "RuntimeError">>,    \* opens, the traversal fails
     <<"none", "IOError">>,         \* opens, the traversal hits unreadable data
     <<"ValueError", "none">>}      \* an exception outside the except clause

CheckedPaths == {PathA, PathB, PathC, PathD}

CheckedFiles == {CheckedFile(p, b[1], b[2]) : p \in CheckedPaths, b \in FileBehaviours}

DistinctPaths(files) ==
    \A i, j \in 1..Len(files) : i # j => files[i].path # files[j].path

\* "hdf5_file = h5py.File(fast5_file, 'r'); get_hdf5_names(hdf5_file)": the
\* exception this pair of calls ends with
OpenAndTraverse(fast5_file) ==
    IF fast5_file.open # "none" THEN fast5_file.open ELSE fast5_file.visit

\* the exceptions of "except (IOError, RuntimeError)"
CaughtErrors == {"IOError", "RuntimeError"}

\* variant of the loop body whose except branch prints the path only for the
\* first file of a run of bad files
CheckFast5QuietAfterBad(fast5_file, good, bad, last_good, out, err) ==
    LET raised == OpenAndTraverse(fast5_file)
    IN IF raised = "none"
       THEN [raised |-> "none", good_fast5_count |-> good + 1, bad_fast5_count |-> bad,
             last_read_good |-> TRUE, stdout |-> out,
             stderr |-> IF (good + 1) % ProgressEvery = 0
                        THEN Append(err, <<46>>) ELSE err]
       ELSE IF raised \in CaughtErrors
       THEN [raised |-> "none", good_fast5_count |-> good, bad_fast5_count |-> bad + 1,
             last_read_good |-> FALSE,
             stdout |-> IF last_good THEN Append(out, fast5_file.path) ELSE out,
             stderr |-> IF last_good THEN Append(err, << >>) ELSE err]
       ELSE [raised |-> raised, good_fast5_count |-> good, bad_fast5_count |-> bad,
             last_read_good |-> last_good, stdout |-> out, stderr |-> err]

\* The body of "for fast5_file in fast5_files": the try block and its except
\* branch. An exception the except clause does not name leaves the loop
\* (raised); <<46>> is '.', << >> is the empty string printed before the first
\* path of a run of bad files.
CheckFast5(fast5_file, good, bad, last_good, out, err) ==
    LET raised == OpenAndTraverse(fast5_file)
    IN IF raised = "none"
       THEN [raised |-> "none", good_fast5_count |-> good + 1, bad_fast5_count |-> bad,
             last_read_good |-> TRUE, stdout |-> out,
             stderr |-> IF (good + 1) % ProgressEvery = 0
                        THEN Append(err, <<46>>) ELSE err]
       ELSE IF raised \in CaughtErrors
       THEN [raised |-> "none", good_fast5_count |-> good, bad_fast5_count |-> bad + 1,
             last_read_good |-> FALSE,
             stdout |-> Append(out, fast5_file.path),
             stderr |-> IF last_good THEN Append(err, << >>) ELSE err]
       ELSE [raised |-> raised, good_fast5_count |-> good, bad_fast5_count |-> bad,
             last_read_good |-> last_good, stdout |-> out, stderr |-> err]

IntegrityOthersIdle ==
    /\ quals = << >> /\ window_size = 1 /\ mean_out = Pending /\ window_out = Pending
    /\ tool = "none" /\ item = None /\ args = None /\ filter_out = Pending
    /\ hdf5_file = None /\ best_out = Pending
    /\ input_reads = << >> /\ idx = 0 /\ passed_reads = << >> /\ passed_bases = 0
    /\ filtered_reads = << >> /\ total_bases = 0 /\ good_read_names = {}
    /\ min_window_qual_threshold = Frac(0, 1) /\ ranked = << >>

InitIntegrity ==
    /\ pc = "main"
    /\ fast5_files \in ListsOver(CheckedFiles, MaxFiles)
    /\ DistinctPaths(fast5_files)
    /\ checked = 0
    /\ good_fast5_count = 0 /\ bad_fast5_count = 0 /\ last_read_good = TRUE
    /\ stdout = << >> /\ stderr = << >>
    /\ IntegrityOthersIdle

others == <<quals, window_size, mean_out, window_out, tool, item, args, filter_out,
            hdf5_file, best_out, input_reads, idx, passed_reads, passed_bases,
            filtered_reads, total_bases, good_read_names, min_window_qual_threshold,
            ranked>>

\* "if not fast5_files: sys.exit()"
IntegrityExitNoFiles ==
    /\ pc = "main"
    /\ fast5_files = << >>
    /\ pc' = "exit"
    /\ UNCHANGED <<others, integrity>>

\* the counters are set up and the loop is entered
IntegrityEnterLoop ==
    /\ pc = "main"
    /\ fast5_files # << >>
    /\ good_fast5_count' = 0
    /\ bad_fast5_count' = 0
    /\ last_read_good' = TRUE
    /\ pc' = "loop"
    /\ UNCHANGED <<others, fast5_files, checked, stdout, stderr>>

\* one iteration of the loop
IntegrityCheckFile ==
    /\ pc = "loop"
    /\ checked < Len(fast5_files)
    /\ \E o \in {CheckFast5(fast5_files[checked + 1], good_fast5_count,
                            bad_fast5_count, last_read_good, stdout, stderr)} :
          /\ good_fast5_count' = o.good_fast5_count
          /\ bad_fast5_count' = o.bad_fast5_count
          /\ last_read_good' = o.last_read_good
          /\ stdout' = o.stdout
          /\ stderr' = o.stderr
          /\ checked' = IF o.raised = "none" THEN checked + 1 ELSE checked
          /\ pc' = IF o.raised = "none" THEN "loop" ELSE "crashed"
    /\ UNCHANGED <<others, fast5_files>>

\* the loop has run out of files: the results are reported
IntegrityResults ==
    /\ pc = "loop"
    /\ checked = Len(fast5_files)
    /\ pc' = "done"
    /\ UNCHANGED <<others, integrity>>

NextIntegrity ==
    \/ IntegrityExitNoFiles
    \/ IntegrityEnterLoop
    \/ IntegrityCheckFile
    \/ IntegrityResults

SpecIntegrity == InitIntegrity /\ [][NextIntegrity]_vars

(* Integrity: claims *)

Erroring(fast5_file) == OpenAndTraverse(fast5_file) \in CaughtErrors

\* every file opens and traverses cleanly or raises an I/O or runtime error
CleanOrCaught ==
    \A i \in 1..Len(fast5_files) :
       OpenAndTraverse(fast5_files[i]) \in {"none"} \cup CaughtErrors

\* the paths of the erroring files among files, in the order of files
ErrorPaths(files) ==
    LET bad == SelectSeq(files, Erroring)
    IN [i \in 1..Len(bad) |-> bad[i].path]

\* C12: over files each of which is clean or raises an I/O or runtime error,
\* the loop never stops early and classifies every file exactly once: the
\* good and bad counts add up to the number of files handled, the bad count
\* is the number of erroring files handled, their paths are printed in input
\* order, checking the next file never raises out of the loop, and the
\* results are reported only after the last file.
C12_EveryFileClassifiedOnce ==
    CleanOrCaught =>
        /\ pc \in {"main", "exit", "loop", "done"}
        /\ pc \in {"loop", "done"} =>
              /\ good_fast5_count + bad_fast5_count = checked
              /\ bad_fast5_count = Len(ErrorPaths(Prefix(fast5_files, checked)))
              /\ stdout = ErrorPaths(Prefix(fast5_files, checked))
        /\ (pc = "loop" /\ checked < Len(fast5_files)) =>
              CheckFast5(fast5_files[checked + 1], good_fast5_count, bad_fast5_count,
                         last_read_good, stdout, stderr).raised = "none"
        /\ pc = "done" =>
              /\ checked = Len(fast5_files)
              /\ good_fast5_count + bad_fast5_count = Len(fast5_files)

\* three files: two erroring files in a row (one failing to open, one failing
\* in the traversal), then a clean one, all three classified
C12_Witness ==
    /\ pc = "done"
    /\ Len(fast5_files) = MaxFiles
    /\ fast5_files[1].open = "IOError"
    /\ fast5_files[2].open = "none" /\ fast5_files[2].visit = "RuntimeError"
    /\ OpenAndTraverse(fast5_files[3]) = "none"
    /\ good_fast5_count = 1 /\ bad_fast5_count = 2
    /\ stdout = <<fast5_files[1].path, fast5_files[2].path>>

====
